---------------------------- MODULE Spec2Model ----------------------------
(***************************************************************************)
(* The metric-collection cycle of the spot-termination exporter:           *)
(* terminationCollector.Collect with its two request helpers,              *)
(* getIMDSv2Token and getResponse.  One invocation of Collect is a         *)
(* sequence of blocking metadata calls; the model cuts Collect at every    *)
(* call, so an invocation is either about to issue a request, waiting for  *)
(* its response, or has returned.                                           *)
(***************************************************************************)
EXTENDS Integers, Sequences, FiniteSets, TLC

VARIABLES
    nodeLabelKey,   \* the key of a label of the node, as the cluster returns it
    sanitizedKeys,  \* the keys of getNodeLabels' sanitizedLabels map
    useIMDSv2,      \* terminationCollector.useIMDSv2, fixed at construction
    backend,        \* per endpoint, the responses the metadata service may give
    now,            \* the wall clock, in ticks
    pc,             \* per invocation: where Collect stands
    token,          \* per invocation: local variable token
    instanceID,     \* per invocation: local variable instanceID
    instanceType,   \* per invocation: local variable instanceType
    ch,             \* per invocation: the readings sent on ch, in order
    requests,       \* per invocation: the HTTP requests issued, in order
    responses,      \* per invocation: the outcomes of those requests, in order
    clockRead,      \* per invocation: what time.Now() returned inside time.Until
    logs            \* per invocation: the log lines written, in order

vars == <<nodeLabelKey, sanitizedKeys, useIMDSv2, backend, now, pc, token, instanceID, instanceType, ch,
          requests, responses, clockRead, logs>>

-----------------------------------------------------------------------------
(* Bounds of the model.  Time is counted in ticks; a tick stands for any      *)
(* fixed number of nanoseconds.                                               *)

StartTime == 4      \* the clock's reading when the exporter starts
MaxTicks == 1       \* how far the clock advances
MaxTime == 9        \* latest timestamp a metadata body carries

(* time.Duration is an int64 count of nanoseconds and time.Time.Sub (under   *)
(* time.Until) saturates at its largest and smallest value.  MaxDuration is   *)
(* that largest value scaled to ticks.                                        *)
MaxDuration == 3

(* The zero time.Time, which json.Unmarshal leaves in a field the body does   *)
(* not carry.  It lies before every clock reading.                            *)
ZeroTime == 0

-----------------------------------------------------------------------------
(* Endpoints *)

TokenPath == "api/token"
InstanceIDPath == "instance-id"
InstanceTypePath == "instance-type"
ActionPath == "spot/instance-action"
RebalancePath == "events/recommendations/rebalance"

MetadataPaths == {InstanceIDPath, InstanceTypePath, ActionPath, RebalancePath}
Paths == {TokenPath} \cup MetadataPaths

-----------------------------------------------------------------------------
(* What the metadata service can answer.  A call ends in a transport error   *)
(* (err) or in a response with a status and a body.                           *)

Statuses == {200, 404, 500}
Times == ZeroTime..MaxTime

Absent == "<absent>"            \* a key the JSON object does not carry
ActionFields == {Absent, "terminate", "stop"}

TextBody(s) == [json |-> FALSE, action |-> Absent, timeKind |-> "absent", time |-> ZeroTime, text |-> s]
NoBody == TextBody("")

\* Bodies that are a JSON object: the action key and the time key are each
\* absent or present, and a present time is an RFC 3339 timestamp or is not.
ObjectBodies(actions, times) ==
    {[json |-> TRUE, action |-> a, timeKind |-> "time", time |-> t, text |-> ""] :
        a \in actions, t \in times}
    \cup
    {[json |-> TRUE, action |-> a, timeKind |-> k, time |-> ZeroTime, text |-> ""] :
        a \in actions, k \in {"absent", "invalid"}}

TransportError == [err |-> TRUE, status |-> 0, body |-> NoBody]
Answers(statuses, bodies) ==
    {[err |-> FALSE, status |-> st, body |-> b] : st \in statuses, b \in bodies}

TokenBodies == {TextBody(""), TextBody("tok-A"), TextBody("tok-B")}
IDBodies == {TextBody("i-1234"), TextBody("i-5678")}
TypeBodies == {TextBody("m5.large"), TextBody("c5.xlarge")}
ActionBodies == {TextBody("not json")} \cup ObjectBodies(ActionFields, Times)
RebalanceBodies == {TextBody("not json")} \cup ObjectBodies({Absent}, {StartTime})

FullBackend ==
    [p \in Paths |->
        {TransportError} \cup
        CASE p = TokenPath -> Answers({200}, TokenBodies)
          [] p = InstanceIDPath -> Answers({200, 500}, IDBodies) \cup Answers({404}, {NoBody})
          [] p = InstanceTypePath -> Answers({200, 500}, TypeBodies) \cup Answers({404}, {NoBody})
          [] p = ActionPath -> Answers({200, 500}, ActionBodies) \cup Answers({404}, {NoBody})
          [] p = RebalancePath -> Answers({200, 500}, RebalanceBodies) \cup Answers({404}, {NoBody})]


-----------------------------------------------------------------------------
(* The pieces of Collect *)

Scrapers == {"s1"}

\* The variable labels of the five descriptors, in the order
\* NewTerminationCollector declares them
DescLabels ==
    [rebalanceIndicator |-> <<"instance_id", "instance_type">>,
     rebalanceScrapeSuccessful |-> <<"instance_id">>,
     scrapeSuccessful |-> <<"instance_id">>,
     terminationIndicator |-> <<"instance_action", "instance_id", "instance_type">>,
     terminationTime |-> <<"instance_id", "instance_type">>]

\* prometheus.MustNewConstMetric(desc, GaugeValue, value, labelValues...)
MustNewConstMetric(desc, value, labelValues) ==
    [desc |-> desc, value |-> value, labels |-> labelValues]

LogLine(level, msg) == [level |-> level, msg |-> msg]

\* Mutant: resp.StatusCode != 200
NotFoundUnless200(r) == r.status # 200

\* resp.StatusCode == 404
NotFound(r) == r.status = 404

\* io.ReadAll(resp.Body) followed by string(body)
ReadAll(r) == r.body.text

\* Mutant: the action key is not bound to the Action field.
UnmarshalActionDropsAction(body) ==
    IF ~body.json \/ body.timeKind = "invalid"
    THEN [err |-> TRUE, Action |-> "", Time |-> ZeroTime]
    ELSE [err |-> FALSE,
          Action |-> "",
          Time |-> IF body.timeKind = "absent" THEN ZeroTime ELSE body.time]

\* json.Unmarshal(body, &ia) with ia an instanceAction: an error for a body
\* that is no JSON object or whose time is no timestamp; a key the body does
\* not carry leaves the field at its zero value.
UnmarshalAction(body) ==
    IF ~body.json \/ body.timeKind = "invalid"
    THEN [err |-> TRUE, Action |-> "", Time |-> ZeroTime]
    ELSE [err |-> FALSE,
          Action |-> IF body.action = Absent THEN "" ELSE body.action,
          Time |-> IF body.timeKind = "absent" THEN ZeroTime ELSE body.time]

\* Mutant: the decode error is dropped.
UnmarshalEventLenient(body) ==
    [err |-> FALSE,
     NoticeTime |-> IF body.timeKind = "time" THEN body.time ELSE ZeroTime]

\* json.Unmarshal(body, &ie) with ie an instanceEvent
UnmarshalEvent(body) ==
    IF ~body.json \/ body.timeKind = "invalid"
    THEN [err |-> TRUE, NoticeTime |-> ZeroTime]
    ELSE [err |-> FALSE,
          NoticeTime |-> IF body.timeKind = "absent" THEN ZeroTime ELSE body.time]

\* time.Until(t) read at clock reading c: t.Sub(c), saturating at the
\* largest and smallest Duration
Until(t, c) ==
    IF t - c > MaxDuration THEN MaxDuration
    ELSE IF t - c < -MaxDuration THEN -MaxDuration
    ELSE t - c

\* Mutant: delta.Seconds() >= 0
EtaDueAtZero(delta) == delta >= 0

\* delta.Seconds() > 0
EtaDue(delta) == delta > 0

\* Mutant: the 404 check is missing.
IdentityAbortOnErrorOnly(r) == r.err

\* The identity lookups: a transport error or a 404 ends the scrape.
IdentityAbort(r) == r.err \/ NotFound(r)

\* Mutant: nothing is sent on a transport error.
UnreachableSilent(id) == <<>>

\* The reading sent when the spot/instance-action call ended in a transport
\* error.
UnreachableReadings(id) ==
    <<MustNewConstMetric("scrapeSuccessful", 0, <<id>>)>>

\* Mutant: nothing is sent on a decode error.
ParseFailureSilent(id, type) == <<>>

\* Mutant: instance id and instance type are passed in the wrong order.
ParseFailureSwapped(id, type) ==
    <<MustNewConstMetric("terminationIndicator", 0, <<"", type, id>>)>>

\* The reading sent when the spot/instance-action body does not decode.
ParseFailureReadings(id, type) ==
    <<MustNewConstMetric("terminationIndicator", 0, <<"", id, type>>)>>

\* Mutant: the eta is sent before the indicator.
NoticeReadingsEtaFirst(ia, id, type, c) ==
    (LET delta == Until(ia.Time, c)
     IN  IF EtaDue(delta)
         THEN <<MustNewConstMetric("terminationTime", delta, <<id, type>>)>>
         ELSE <<>>)
    \o <<MustNewConstMetric("terminationIndicator", 1, <<ia.Action, id, type>>)>>

\* The readings sent for a decoded instanceAction ia, with time.Now()
\* reading c.
NoticeReadings(ia, id, type, c) ==
    <<MustNewConstMetric("terminationIndicator", 1, <<ia.Action, id, type>>)>> \o
    LET delta == Until(ia.Time, c)
    IN  IF EtaDue(delta)
        THEN <<MustNewConstMetric("terminationTime", delta, <<id, type>>)>>
        ELSE <<>>

\* What the termination phase sends on ch for response r of
\* spot/instance-action, with time.Now() reading c.
TerminationReadings(r, id, type, c) ==
    IF r.err
    THEN UnreachableReadings(id)
    ELSE <<MustNewConstMetric("scrapeSuccessful", 1, <<id>>)>> \o
         IF NotFound(r)
         THEN <<MustNewConstMetric("terminationIndicator", 0, <<"", id, type>>)>>
         ELSE LET ia == UnmarshalAction(r.body)
              IN  IF ia.err
                  THEN ParseFailureReadings(id, type)
                  ELSE NoticeReadings(ia, id, type, c)

\* Mutant: the 404 of spot/instance-action is logged with Errorf.
TerminationLogsErrorOn404(r) ==
    IF r.err
    THEN <<LogLine("error", "Failed to fetch data from metadata service")>>
    ELSE IF NotFound(r)
         THEN <<LogLine("error", "instance-action endpoint not found")>>
         ELSE IF UnmarshalAction(r.body).err
              THEN <<LogLine("error", "Couldn't parse instance-action metadata"),
                     LogLine("info", "instanceID, instanceType")>>
              ELSE <<LogLine("info", "instance-action endpoint available")>>

\* The log lines of the termination phase for response r
TerminationLogs(r) ==
    IF r.err
    THEN <<LogLine("error", "Failed to fetch data from metadata service")>>
    ELSE IF NotFound(r)
         THEN <<LogLine("debug", "instance-action endpoint not found")>>
         ELSE IF UnmarshalAction(r.body).err
              THEN <<LogLine("error", "Couldn't parse instance-action metadata"),
                     LogLine("info", "instanceID, instanceType")>>
              ELSE <<LogLine("info", "instance-action endpoint available")>>

\* Mutant: nothing is sent on a transport error.
RebalanceUnreachableSilent(id) == <<>>

\* The reading sent when the rebalance call ended in a transport error.
RebalanceUnreachableReadings(id) ==
    <<MustNewConstMetric("rebalanceScrapeSuccessful", 0, <<id>>)>>

\* What the rebalance phase sends on ch for response r of
\* events/recommendations/rebalance.
RebalanceReadings(r, id, type) ==
    IF r.err
    THEN RebalanceUnreachableReadings(id)
    ELSE <<MustNewConstMetric("rebalanceScrapeSuccessful", 1, <<id>>)>> \o
         IF NotFound(r)
         THEN <<MustNewConstMetric("rebalanceIndicator", 0, <<id, type>>)>>
         ELSE IF UnmarshalEvent(r.body).err
              THEN <<MustNewConstMetric("rebalanceIndicator", 0, <<id, type>>)>>
              ELSE <<MustNewConstMetric("rebalanceIndicator", 1, <<id, type>>)>>

\* The log lines of the rebalance phase for response r
RebalanceLogs(r) ==
    IF r.err
    THEN <<LogLine("error", "Failed to fetch events data from metadata service")>>
    ELSE IF NotFound(r)
         THEN <<LogLine("debug", "rebalance endpoint not found")>>
         ELSE IF UnmarshalEvent(r.body).err
              THEN <<LogLine("error", "Couldn't parse rebalance recommendation event metadata")>>
              ELSE <<LogLine("info", "rebalance recommendation event endpoint available")>>

\* Where Collect stands, and where it goes once a call has returned
Idle == [at |-> "idle", path |-> ""]          \* not in Collect yet
Calling(p) == [at |-> "call", path |-> p]     \* about to issue the request to p
Waiting(p) == [at |-> "wait", path |-> p]     \* blocked in client.Do on p
Done == [at |-> "done", path |-> ""]          \* Collect has returned

\* Mutants: the token error is ignored; a failed spot/instance-action call
\* ends the scrape; a failed rebalance call is tried again.
AfterTokenIgnoringError(r) == Calling(InstanceIDPath)
AfterActionAbortOnError(r) == IF r.err THEN Done ELSE Calling(RebalancePath)
AfterRebalanceRetry(r) == IF r.err THEN Calling(RebalancePath) ELSE Done

\* Mutant: a failed spot/instance-action call is tried again.
AfterActionRetry(r) == IF r.err THEN Calling(ActionPath) ELSE Calling(RebalancePath)

AfterToken(r) == IF r.err THEN Done ELSE Calling(InstanceIDPath)
AfterInstanceID(r) == IF IdentityAbort(r) THEN Done ELSE Calling(InstanceTypePath)
AfterInstanceType(r) == IF IdentityAbort(r) THEN Done ELSE Calling(ActionPath)
AfterAction(r) == Calling(RebalancePath)
AfterRebalance(r) == Done

-----------------------------------------------------------------------------
(* State after construction: NewTerminationCollector has fixed useIMDSv2 and  *)
(* no invocation of Collect has begun.                                        *)

\* clockRead before time.Until has been called
NoRead == ZeroTime - 1

InitCollector(S, b) ==
    /\ useIMDSv2 \in BOOLEAN
    /\ backend = b
    /\ now = StartTime
    /\ pc = [s \in S |-> Idle]
    /\ token = [s \in S |-> ""]
    /\ instanceID = [s \in S |-> ""]
    /\ instanceType = [s \in S |-> ""]
    /\ ch = [s \in S |-> <<>>]
    /\ requests = [s \in S |-> <<>>]
    /\ responses = [s \in S |-> <<>>]
    /\ clockRead = [s \in S |-> NoRead]
    /\ logs = [s \in S |-> <<>>]

\* Node labels are not attached unless asked for: no key, nothing sanitized.
InitWith(S, b) ==
    /\ nodeLabelKey = <<>>
    /\ sanitizedKeys = {}
    /\ InitCollector(S, b)

Init == InitWith(Scrapers, FullBackend)

\* Mutant: the readings of earlier scrapes stay on the channel.
CollectAccumulating(s) ==
    /\ pc[s] \in {Idle, Done}
    /\ pc' = [pc EXCEPT ![s] = IF useIMDSv2 THEN Calling(TokenPath) ELSE Calling(InstanceIDPath)]
    /\ token' = [token EXCEPT ![s] = ""]
    /\ instanceID' = [instanceID EXCEPT ![s] = ""]
    /\ instanceType' = [instanceType EXCEPT ![s] = ""]
    /\ requests' = [requests EXCEPT ![s] = <<>>]
    /\ responses' = [responses EXCEPT ![s] = <<>>]
    /\ clockRead' = [clockRead EXCEPT ![s] = NoRead]
    /\ logs' = [logs EXCEPT ![s] =
                   <<LogLine("info", "Fetching termination data from metadata-service")>>]
    /\ UNCHANGED <<nodeLabelKey, sanitizedKeys, useIMDSv2, backend, now, ch>>

\* The exposition layer calls Collect: a new invocation with fresh locals and
\* its own channel.
Collect(s) ==
    /\ pc[s] \in {Idle, Done}
    /\ pc' = [pc EXCEPT ![s] = IF useIMDSv2 THEN Calling(TokenPath) ELSE Calling(InstanceIDPath)]
    /\ token' = [token EXCEPT ![s] = ""]
    /\ instanceID' = [instanceID EXCEPT ![s] = ""]
    /\ instanceType' = [instanceType EXCEPT ![s] = ""]
    /\ ch' = [ch EXCEPT ![s] = <<>>]
    /\ requests' = [requests EXCEPT ![s] = <<>>]
    /\ responses' = [responses EXCEPT ![s] = <<>>]
    /\ clockRead' = [clockRead EXCEPT ![s] = NoRead]
    /\ logs' = [logs EXCEPT ![s] =
                   <<LogLine("info", "Fetching termination data from metadata-service")>>]
    /\ UNCHANGED <<nodeLabelKey, sanitizedKeys, useIMDSv2, backend, now>>

\* getIMDSv2Token up to client.Do: a PUT to the token endpoint with the TTL
\* header.
getIMDSv2Token(s) ==
    /\ pc[s] = Calling(TokenPath)
    /\ requests' = [requests EXCEPT ![s] =
           Append(@, [method |-> "PUT", path |-> TokenPath, hasToken |-> FALSE, token |-> ""])]
    /\ pc' = [pc EXCEPT ![s] = Waiting(TokenPath)]
    /\ UNCHANGED <<nodeLabelKey, sanitizedKeys, useIMDSv2, backend, now, token, instanceID, instanceType, ch,
                   responses, clockRead, logs>>

\* Mutant: the token header is never added.
getResponseWithoutHeader(s) ==
    /\ pc[s].at = "call"
    /\ pc[s].path \in MetadataPaths
    /\ requests' = [requests EXCEPT ![s] =
           Append(@, [method |-> "GET", path |-> pc[s].path,
                      hasToken |-> FALSE, token |-> ""])]
    /\ pc' = [pc EXCEPT ![s] = Waiting(pc[s].path)]
    /\ UNCHANGED <<nodeLabelKey, sanitizedKeys, useIMDSv2, backend, now, token, instanceID, instanceType, ch,
                   responses, clockRead, logs>>

\* getResponse up to client.Do: a GET that carries the token header when the
\* token is not empty.
getResponse(s) ==
    /\ pc[s].at = "call"
    /\ pc[s].path \in MetadataPaths
    /\ requests' = [requests EXCEPT ![s] =
           Append(@, [method |-> "GET", path |-> pc[s].path,
                      hasToken |-> token[s] # "", token |-> token[s]])]
    /\ pc' = [pc EXCEPT ![s] = Waiting(pc[s].path)]
    /\ UNCHANGED <<nodeLabelKey, sanitizedKeys, useIMDSv2, backend, now, token, instanceID, instanceType, ch,
                   responses, clockRead, logs>>

\* The token call returns.
TokenReturn(s) ==
    /\ pc[s] = Waiting(TokenPath)
    /\ \E r \in backend[TokenPath] :
        /\ responses' = [responses EXCEPT ![s] = Append(@, r)]
        /\ token' = [token EXCEPT ![s] = IF r.err THEN @ ELSE ReadAll(r)]
        /\ logs' = [logs EXCEPT ![s] =
               IF r.err THEN Append(@, LogLine("error", "couldn't fetch token for IMDSv2"))
               ELSE @]
        /\ pc' = [pc EXCEPT ![s] = AfterToken(r)]
    /\ UNCHANGED <<nodeLabelKey, sanitizedKeys, useIMDSv2, backend, now, instanceID, instanceType, ch, requests,
                   clockRead>>

\* Mutant: the instance id is kept in a field of the collector, which all
\* invocations share.
InstanceIDReturnShared(s) ==
    /\ pc[s] = Waiting(InstanceIDPath)
    /\ \E r \in backend[InstanceIDPath] :
        /\ responses' = [responses EXCEPT ![s] = Append(@, r)]
        /\ instanceID' = IF AfterInstanceID(r) = Done THEN instanceID
                         ELSE [t \in DOMAIN pc |-> ReadAll(r)]
        /\ logs' = [logs EXCEPT ![s] =
               IF r.err
               THEN Append(@, LogLine("error", "couldn't parse instance-id from metadata"))
               ELSE IF NotFound(r)
               THEN Append(@, LogLine("error", "couldn't parse instance-id from metadata: endpoint not found"))
               ELSE @]
        /\ pc' = [pc EXCEPT ![s] = AfterInstanceID(r)]
    /\ UNCHANGED <<nodeLabelKey, sanitizedKeys, useIMDSv2, backend, now, token, instanceType, ch, requests,
                   clockRead>>

\* The instance-id call returns.
InstanceIDReturn(s) ==
    /\ pc[s] = Waiting(InstanceIDPath)
    /\ \E r \in backend[InstanceIDPath] :
        /\ responses' = [responses EXCEPT ![s] = Append(@, r)]
        /\ instanceID' = [instanceID EXCEPT ![s] =
               IF AfterInstanceID(r) = Done THEN @ ELSE ReadAll(r)]
        /\ logs' = [logs EXCEPT ![s] =
               IF r.err
               THEN Append(@, LogLine("error", "couldn't parse instance-id from metadata"))
               ELSE IF NotFound(r)
               THEN Append(@, LogLine("error", "couldn't parse instance-id from metadata: endpoint not found"))
               ELSE @]
        /\ pc' = [pc EXCEPT ![s] = AfterInstanceID(r)]
    /\ UNCHANGED <<nodeLabelKey, sanitizedKeys, useIMDSv2, backend, now, token, instanceType, ch, requests,
                   clockRead>>

\* The instance-type call returns.
InstanceTypeReturn(s) ==
    /\ pc[s] = Waiting(InstanceTypePath)
    /\ \E r \in backend[InstanceTypePath] :
        /\ responses' = [responses EXCEPT ![s] = Append(@, r)]
        /\ instanceType' = [instanceType EXCEPT ![s] =
               IF AfterInstanceType(r) = Done THEN @ ELSE ReadAll(r)]
        /\ logs' = [logs EXCEPT ![s] =
               IF r.err
               THEN Append(@, LogLine("error", "couldn't parse instance-type from metadata"))
               ELSE IF NotFound(r)
               THEN Append(@, LogLine("error", "couldn't parse instance-type from metadata: endpoint not found"))
               ELSE @]
        /\ pc' = [pc EXCEPT ![s] = AfterInstanceType(r)]
    /\ UNCHANGED <<nodeLabelKey, sanitizedKeys, useIMDSv2, backend, now, token, instanceID, ch, requests,
                   clockRead>>

\* time.Until is reached only with a decoded body
ReachesUntil(r) == ~r.err /\ ~NotFound(r) /\ ~UnmarshalAction(r.body).err

\* The spot/instance-action call returns: the termination phase.
ActionReturn(s) ==
    /\ pc[s] = Waiting(ActionPath)
    /\ \E r \in backend[ActionPath] :
        /\ responses' = [responses EXCEPT ![s] = Append(@, r)]
        /\ ch' = [ch EXCEPT ![s] =
               @ \o TerminationReadings(r, instanceID[s], instanceType[s], now)]
        /\ clockRead' = [clockRead EXCEPT ![s] = IF ReachesUntil(r) THEN now ELSE @]
        /\ logs' = [logs EXCEPT ![s] = @ \o TerminationLogs(r)]
        /\ pc' = [pc EXCEPT ![s] = AfterAction(r)]
    /\ UNCHANGED <<nodeLabelKey, sanitizedKeys, useIMDSv2, backend, now, token, instanceID, instanceType, requests>>

\* The events/recommendations/rebalance call returns: the rebalance phase,
\* after which Collect returns.
RebalanceReturn(s) ==
    /\ pc[s] = Waiting(RebalancePath)
    /\ \E r \in backend[RebalancePath] :
        /\ responses' = [responses EXCEPT ![s] = Append(@, r)]
        /\ ch' = [ch EXCEPT ![s] =
               @ \o RebalanceReadings(r, instanceID[s], instanceType[s])]
        /\ logs' = [logs EXCEPT ![s] = @ \o RebalanceLogs(r)]
        /\ pc' = [pc EXCEPT ![s] = AfterRebalance(r)]
    /\ UNCHANGED <<nodeLabelKey, sanitizedKeys, useIMDSv2, backend, now, token, instanceID, instanceType, requests,
                   clockRead>>

\* Time passes.
Tick ==
    /\ now < StartTime + MaxTicks
    /\ now' = now + 1
    /\ UNCHANGED <<nodeLabelKey, sanitizedKeys, useIMDSv2, backend, pc, token, instanceID, instanceType, ch,
                   requests, responses, clockRead, logs>>

Next ==
    \/ \E s \in DOMAIN pc : Collect(s)
    \/ \E s \in DOMAIN pc : getIMDSv2Token(s)
    \/ \E s \in DOMAIN pc : getResponse(s)
    \/ \E s \in DOMAIN pc : TokenReturn(s)
    \/ \E s \in DOMAIN pc : InstanceIDReturn(s)
    \/ \E s \in DOMAIN pc : InstanceTypeReturn(s)
    \/ \E s \in DOMAIN pc : ActionReturn(s)
    \/ \E s \in DOMAIN pc : RebalanceReturn(s)
    \/ Tick

Spec == Init /\ [][Next]_vars

-----------------------------------------------------------------------------
(* Reading a state: what one invocation has asked, been answered and sent *)

\* the call to p has been issued / has returned
Requested(s, p) == \E i \in 1..Len(requests[s]) : requests[s][i].path = p
Answered(s, p) == \E i \in 1..Len(responses[s]) : requests[s][i].path = p
\* the outcome of the call to p
Answer(s, p) ==
    responses[s][CHOOSE i \in 1..Len(responses[s]) : requests[s][i].path = p]

\* the positions in ch of the readings of descriptor d
Sent(s, d) == {i \in 1..Len(ch[s]) : ch[s][i].desc = d}
\* descriptor d was sent exactly once and with value v
SentOnce(s, d, v) ==
    /\ Cardinality(Sent(s, d)) = 1
    /\ \A i \in Sent(s, d) : ch[s][i].value = v

\* the spot/instance-action call returned a body that decodes
Decoded(s) ==
    /\ Answered(s, ActionPath)
    /\ LET r == Answer(s, ActionPath)
       IN  ~r.err /\ r.status # 404 /\ r.body.json /\ r.body.timeKind # "invalid"
\* the action and the termination time that body decodes to
DecodedAction(s) ==
    LET b == Answer(s, ActionPath).body
    IN  IF b.action = Absent THEN "" ELSE b.action
DecodedTime(s) ==
    LET b == Answer(s, ActionPath).body
    IN  IF b.timeKind = "time" THEN b.time ELSE ZeroTime

-----------------------------------------------------------------------------
(* C1: when the instance-id call or the instance-type call ends in a         *)
(* transport error or a 404, the invocation has sent no reading, has          *)
(* returned, and that call is the last request it issued, with or without a   *)
(* token obtained before.                                                      *)
C1_IdentityFailureAborts ==
    \A s \in DOMAIN pc : \A p \in {InstanceIDPath, InstanceTypePath} :
        (Answered(s, p) /\ (Answer(s, p).err \/ Answer(s, p).status = 404)) =>
            /\ ch[s] = <<>>
            /\ pc[s] = Done
            /\ requests[s][Len(requests[s])].path = p

C1_Witness ==
    \E s \in DOMAIN pc :
        /\ useIMDSv2 /\ token[s] # ""
        /\ Answered(s, InstanceTypePath)
        /\ Answer(s, InstanceTypePath).status = 404
        /\ pc[s] = Done

(* C2: in token mode, when the token call fails the invocation has sent no   *)
(* reading, has returned, and has issued no request but the token request.    *)
C2_TokenFailureAborts ==
    \A s \in DOMAIN pc :
        (useIMDSv2 /\ Answered(s, TokenPath) /\ Answer(s, TokenPath).err) =>
            /\ ch[s] = <<>>
            /\ pc[s] = Done
            /\ \A p \in MetadataPaths : ~Requested(s, p)

C2_Witness ==
    \E s \in DOMAIN pc :
        /\ useIMDSv2
        /\ Answered(s, TokenPath) /\ Answer(s, TokenPath).err
        /\ pc[s] = Done

(* C3: when the spot/instance-action call ends in a transport error, the     *)
(* invocation has sent metadata-service-available once with value 0, no       *)
(* termination-imminent and no termination-eta reading, and it goes on to     *)
(* the rebalance call: it has not returned without having issued it.          *)
C3_ActionErrorContinues ==
    \A s \in DOMAIN pc :
        (Answered(s, ActionPath) /\ Answer(s, ActionPath).err) =>
            /\ SentOnce(s, "scrapeSuccessful", 0)
            /\ Sent(s, "terminationIndicator") = {}
            /\ Sent(s, "terminationTime") = {}
            /\ pc[s] = Calling(RebalancePath) \/ Requested(s, RebalancePath)

C3_Witness ==
    \E s \in DOMAIN pc :
        /\ Answered(s, ActionPath) /\ Answer(s, ActionPath).err
        /\ Answered(s, RebalancePath)

(* C4: when the spot/instance-action call returns 200 with a body that       *)
(* decodes, the invocation has sent metadata-service-available once with      *)
(* value 1 and termination-imminent exactly once, with value 1 and the        *)
(* decoded action (empty when the body carries none) as instance_action.      *)
C4_NoticeReported ==
    \A s \in DOMAIN pc :
        (Decoded(s) /\ Answer(s, ActionPath).status = 200) =>
            /\ SentOnce(s, "scrapeSuccessful", 1)
            /\ SentOnce(s, "terminationIndicator", 1)
            /\ \A i \in Sent(s, "terminationIndicator") :
                   ch[s][i].labels[1] = DecodedAction(s)

C4_Witness ==
    \E s \in DOMAIN pc :
        /\ Decoded(s) /\ Answer(s, ActionPath).status = 200
        /\ Answer(s, ActionPath).body.action = "terminate"
        /\ \E i \in Sent(s, "terminationIndicator") :
               ch[s][i].value = 1 /\ ch[s][i].labels[1] = "terminate"

(* C5 as stated: a termination-eta reading is sent if and only if the body   *)
(* decoded and its time is strictly later than the clock reading, and its     *)
(* value is the distance from that reading to the time, which is positive.    *)
C5_EtaIsDistance ==
    \A s \in DOMAIN pc :
        /\ Sent(s, "terminationTime") # {} <=>
               (Decoded(s) /\ DecodedTime(s) > clockRead[s])
        /\ \A i \in Sent(s, "terminationTime") :
               /\ ch[s][i].value = DecodedTime(s) - clockRead[s]
               /\ ch[s][i].value > 0

(* C5 amended: a termination-eta reading is sent if and only if the body     *)
(* decoded and its time is strictly later than the clock reading; its value   *)
(* is the distance from that reading to the time, capped at the largest       *)
(* Duration, and is positive.                                                  *)
C5_EtaIsCappedDistance ==
    \A s \in DOMAIN pc :
        /\ Cardinality(Sent(s, "terminationTime")) <= 1
        /\ Sent(s, "terminationTime") # {} <=>
               (Decoded(s) /\ DecodedTime(s) > clockRead[s])
        /\ \A i \in Sent(s, "terminationTime") :
               /\ ch[s][i].value =
                      IF DecodedTime(s) - clockRead[s] > MaxDuration
                      THEN MaxDuration
                      ELSE DecodedTime(s) - clockRead[s]
               /\ ch[s][i].value > 0

C5_Witness ==
    \E s \in DOMAIN pc :
        /\ Decoded(s)
        /\ clockRead[s] > StartTime
        /\ DecodedTime(s) - clockRead[s] > MaxDuration
        /\ \E i \in Sent(s, "terminationTime") : ch[s][i].value = MaxDuration

(* C6: when the spot/instance-action call returns 404, or 200 with a body    *)
(* that does not decode, the invocation has sent metadata-service-available   *)
(* once with value 1, termination-imminent once with value 0 and an empty     *)
(* instance_action, no termination-eta, and it goes on to the rebalance call. *)
NoNotice(s) ==
    /\ Answered(s, ActionPath)
    /\ LET r == Answer(s, ActionPath)
       IN  /\ ~r.err
           /\ \/ r.status = 404
              \/ r.status = 200 /\ (~r.body.json \/ r.body.timeKind = "invalid")

C6_NoNoticeReported ==
    \A s \in DOMAIN pc :
        NoNotice(s) =>
            /\ SentOnce(s, "scrapeSuccessful", 1)
            /\ SentOnce(s, "terminationIndicator", 0)
            /\ \A i \in Sent(s, "terminationIndicator") : ch[s][i].labels[1] = ""
            /\ Sent(s, "terminationTime") = {}
            /\ pc[s] = Calling(RebalancePath) \/ Requested(s, RebalancePath)

C6_Witness ==
    \E s \in DOMAIN pc :
        /\ NoNotice(s)
        /\ Answer(s, ActionPath).status = 200
        /\ Answer(s, ActionPath).body.timeKind = "invalid"
        /\ Answered(s, RebalancePath)

(* C7: the rebalance readings an invocation has sent are exactly those of    *)
(* the outcome of its rebalance call: a transport error gives                 *)
(* rebalance-endpoint-available=0 alone; a 404 and a 200 that does not        *)
(* decode give available=1 and rebalance-recommended=0; a 200 that decodes    *)
(* gives available=1 and recommended=1; and none is sent before the call      *)
(* has returned.                                                               *)
RebalanceSent(s) ==
    LET q == SelectSeq(ch[s], LAMBDA m :
                 m.desc \in {"rebalanceScrapeSuccessful", "rebalanceIndicator"})
    IN  [i \in 1..Len(q) |-> <<q[i].desc, q[i].value>>]

RebalanceExpected(r) ==
    IF r.err
    THEN <<<<"rebalanceScrapeSuccessful", 0>>>>
    ELSE IF r.status = 404 \/ ~r.body.json \/ r.body.timeKind = "invalid"
         THEN <<<<"rebalanceScrapeSuccessful", 1>>, <<"rebalanceIndicator", 0>>>>
         ELSE <<<<"rebalanceScrapeSuccessful", 1>>, <<"rebalanceIndicator", 1>>>>

C7_RebalanceReadingSet ==
    \A s \in DOMAIN pc :
        IF Answered(s, RebalancePath)
        THEN LET r == Answer(s, RebalancePath)
             IN  (r.err \/ r.status \in {200, 404}) =>
                     /\ Len(RebalanceSent(s)) = Len(RebalanceExpected(r))
                     /\ \A i \in 1..Len(RebalanceSent(s)) :
                            \E j \in 1..Len(RebalanceExpected(r)) :
                                RebalanceSent(s)[i] = RebalanceExpected(r)[j]
                     /\ \A j \in 1..Len(RebalanceExpected(r)) :
                            \E i \in 1..Len(RebalanceSent(s)) :
                                RebalanceSent(s)[i] = RebalanceExpected(r)[j]
        ELSE RebalanceSent(s) = <<>>

C7_Witness ==
    \E s \in DOMAIN pc :
        /\ Answered(s, RebalancePath)
        /\ Answer(s, RebalancePath).status = 200
        /\ ~Answer(s, RebalancePath).body.json
        /\ Len(RebalanceSent(s)) = 2

(* C8 as stated: a completed scrape in which a metadata call ended in a      *)
(* transport error has sent an *_available reading with value 0; it has not   *)
(* sent nothing.                                                               *)
AvailableDescs == {"scrapeSuccessful", "rebalanceScrapeSuccessful"}

C8_UnreachableAlwaysReported ==
    \A s \in DOMAIN pc :
        (pc[s] = Done /\ \E i \in 1..Len(responses[s]) : responses[s][i].err) =>
            \E k \in 1..Len(ch[s]) :
                ch[s][k].desc \in AvailableDescs /\ ch[s][k].value = 0

(* C8 amended: in a completed scrape, a transport error of the               *)
(* spot/instance-action call shows as metadata-service-available=0 and one    *)
(* of the rebalance call as rebalance-endpoint-available=0, while a           *)
(* transport error of the token, instance-id or instance-type call shows as   *)
(* a scrape that has sent no reading.                                          *)
C8_UnreachableReportedPerPhase ==
    \A s \in DOMAIN pc :
        pc[s] = Done =>
            \A i \in 1..Len(responses[s]) :
                responses[s][i].err =>
                    IF requests[s][i].path = ActionPath
                    THEN SentOnce(s, "scrapeSuccessful", 0)
                    ELSE IF requests[s][i].path = RebalancePath
                    THEN SentOnce(s, "rebalanceScrapeSuccessful", 0)
                    ELSE ch[s] = <<>>

C8_Witness ==
    \E s \in DOMAIN pc :
        /\ pc[s] = Done
        /\ Answered(s, ActionPath) /\ Answer(s, ActionPath).err
        /\ Answered(s, RebalancePath) /\ ~Answer(s, RebalancePath).err
        /\ SentOnce(s, "scrapeSuccessful", 0)

(* C9: a completed scrape has sent nothing, and then its last call was a     *)
(* token or identity call that failed, or it has sent one                     *)
(* metadata-service-available and one rebalance-endpoint-available reading,   *)
(* each 0 or 1; termination-imminent and termination-eta come only with       *)
(* metadata-service-available=1 and rebalance-recommended only with           *)
(* rebalance-endpoint-available=1.                                             *)
PrerequisiteFailed(s) ==
    /\ responses[s] # <<>>
    /\ LET n == Len(responses[s])
       IN  /\ requests[s][n].path \in {TokenPath, InstanceIDPath, InstanceTypePath}
           /\ responses[s][n].err \/ responses[s][n].status = 404

C9_ReadingSetShape ==
    \A s \in DOMAIN pc :
        pc[s] = Done =>
            /\ \/ ch[s] = <<>> /\ PrerequisiteFailed(s)
               \/ /\ SentOnce(s, "scrapeSuccessful", 0) \/ SentOnce(s, "scrapeSuccessful", 1)
                  /\ \/ SentOnce(s, "rebalanceScrapeSuccessful", 0)
                     \/ SentOnce(s, "rebalanceScrapeSuccessful", 1)
            /\ (Sent(s, "terminationIndicator") \cup Sent(s, "terminationTime")) # {} =>
                   SentOnce(s, "scrapeSuccessful", 1)
            /\ Sent(s, "rebalanceIndicator") # {} =>
                   SentOnce(s, "rebalanceScrapeSuccessful", 1)

C9_Witness ==
    \E s \in DOMAIN pc :
        /\ pc[s] = Done
        /\ SentOnce(s, "scrapeSuccessful", 1)
        /\ Sent(s, "terminationTime") # {}
        /\ SentOnce(s, "rebalanceScrapeSuccessful", 0)
        /\ Sent(s, "rebalanceIndicator") = {}

(* C10: the requests of an invocation are a prefix of token (in token mode   *)
(* only), instance-id, instance-type, spot/instance-action, rebalance, the    *)
(* token request a PUT and the others GETs; at most one request is            *)
(* unanswered, the last one; and once the rebalance call has returned the     *)
(* invocation has returned.                                                    *)
RequestOrder ==
    (IF useIMDSv2 THEN <<TokenPath>> ELSE <<>>) \o
    <<InstanceIDPath, InstanceTypePath, ActionPath, RebalancePath>>

C10_RequestOrder ==
    \A s \in DOMAIN pc :
        /\ Len(requests[s]) <= Len(RequestOrder)
        /\ \A i \in 1..Len(requests[s]) :
               /\ requests[s][i].path = RequestOrder[i]
               /\ requests[s][i].method =
                      IF RequestOrder[i] = TokenPath THEN "PUT" ELSE "GET"
        /\ Len(requests[s]) - Len(responses[s]) \in {0, 1}
        /\ Len(requests[s]) - Len(responses[s]) = 1 <=> pc[s].at = "wait"
        /\ Answered(s, RebalancePath) => pc[s] = Done

C10_Witness ==
    \E s \in DOMAIN pc :
        /\ useIMDSv2
        /\ Len(requests[s]) = 5
        /\ Answered(s, RebalancePath) /\ Answer(s, RebalancePath).err
        /\ pc[s] = Done

(* C11: the token request is issued only in token mode, and then as the      *)
(* first request of every invocation and only once; when the token call       *)
(* yields a token (a body that is not empty), every GET of that invocation    *)
(* carries it in its token header; and a GET carries no token but the one     *)
(* its own invocation obtained.                                                *)
TokenRequests(s) == {i \in 1..Len(requests[s]) : requests[s][i].path = TokenPath}

C11_TokenPerScrape ==
    \A s \in DOMAIN pc :
        /\ ~useIMDSv2 => TokenRequests(s) = {}
        /\ (useIMDSv2 /\ pc[s] # Idle /\ requests[s] # <<>>) => TokenRequests(s) = {1}
        /\ (useIMDSv2 /\ pc[s] # Idle /\ requests[s] = <<>>) => pc[s] = Calling(TokenPath)
        /\ \A i \in 1..Len(requests[s]) :
               requests[s][i].method = "GET" =>
                   /\ (Answered(s, TokenPath) /\ Answer(s, TokenPath).body.text # "") =>
                          /\ requests[s][i].hasToken
                          /\ requests[s][i].token = Answer(s, TokenPath).body.text
                   /\ requests[s][i].hasToken =>
                          /\ Answered(s, TokenPath)
                          /\ ~Answer(s, TokenPath).err
                          /\ requests[s][i].token = Answer(s, TokenPath).body.text

C11_Witness ==
    \E s \in DOMAIN pc :
        /\ useIMDSv2
        /\ Answered(s, TokenPath) /\ Answer(s, TokenPath).body.text = "tok-B"
        /\ Len(requests[s]) = 5
        /\ \A i \in 2..5 : requests[s][i].hasToken /\ requests[s][i].token = "tok-B"

-----------------------------------------------------------------------------
(* Concurrent scrapes: the exposition layer may call Collect again while an  *)
(* earlier call is still running.  Two invocations interleave at every call   *)
(* against a backend that may answer each of them differently.                *)

ConcScrapers == {"s1", "s2"}

ConcBackend ==
    [p \in Paths |->
        CASE p = TokenPath ->
                 {TransportError} \cup Answers({200}, {TextBody("tok-A"), TextBody("tok-B")})
          [] p = InstanceIDPath -> Answers({200}, IDBodies) \cup Answers({404}, {NoBody})
          [] p = InstanceTypePath -> {TransportError} \cup Answers({200}, TypeBodies)
          [] p = ActionPath ->
                 {TransportError} \cup Answers({404}, {NoBody})
                 \cup Answers({200}, ObjectBodies({"terminate"}, {MaxTime}))
          [] p = RebalancePath ->
                 {TransportError} \cup Answers({200}, ObjectBodies({Absent}, {StartTime}))]

InitConc == InitWith(ConcScrapers, ConcBackend)

SpecConc == InitConc /\ [][Next]_vars

\* What Collect, run alone, sends when its calls end with the outcomes rs, in
\* order, and time.Until reads the clock at c.
AloneReadings(rs, c) ==
    LET k == IF useIMDSv2 THEN 1 ELSE 0
        id == ReadAll(rs[k + 1])
        type == ReadAll(rs[k + 2])
    IN  (IF Len(rs) >= k + 3
         THEN TerminationReadings(rs[k + 3], id, type, c) ELSE <<>>)
        \o
        (IF Len(rs) >= k + 4
         THEN RebalanceReadings(rs[k + 4], id, type) ELSE <<>>)

\* The token Collect, run alone, sends with its GETs
AloneToken(rs) ==
    IF useIMDSv2 /\ rs # <<>> /\ ~rs[1].err THEN ReadAll(rs[1]) ELSE ""

(* C12: under every interleaving of two invocations, each has sent exactly   *)
(* the readings it sends when run alone with its own call outcomes, and each  *)
(* of its GETs carries its own token: nothing of the other invocation shows.  *)
C12_ConcurrentScrapesIndependent ==
    \A s \in DOMAIN pc :
        /\ ch[s] = AloneReadings(responses[s], clockRead[s])
        /\ \A i \in 1..Len(requests[s]) :
               requests[s][i].method = "GET" =>
                   requests[s][i].token = AloneToken(responses[s])

C12_Witness ==
    /\ pc["s1"].at = "wait" /\ pc["s2"] = Done
    /\ Len(requests["s1"]) = 5
    /\ instanceID["s1"] # instanceID["s2"]
    /\ instanceType["s1"] # instanceType["s2"]
    /\ token["s1"] # token["s2"]
    /\ Len(ch["s2"]) = 5
    /\ Len(ch["s1"]) = 3

-----------------------------------------------------------------------------
(* Repeated scrapes against a fixed backend: every endpoint has one answer,   *)
(* the same for every call.  Two invocations, each scraping any number of     *)
(* times, stand for any two scrapes of the run.                               *)

FixedAnswers ==
    [p \in Paths |->
        CASE p = TokenPath -> {TransportError} \cup Answers({200}, {TextBody("tok-A")})
          [] p = InstanceIDPath ->
                 Answers({200}, {TextBody("i-1234")}) \cup Answers({404}, {NoBody})
          [] p = InstanceTypePath ->
                 {TransportError} \cup Answers({200}, {TextBody("m5.large")})
          [] p = ActionPath ->
                 {TransportError} \cup Answers({404}, {NoBody})
                 \cup Answers({200}, {TextBody("not json")})
                 \cup Answers({200}, ObjectBodies({"terminate"},
                                                  {StartTime, StartTime + 1, StartTime + 2}))
          [] p = RebalancePath ->
                 {TransportError} \cup Answers({404}, {NoBody})
                 \cup Answers({200}, ObjectBodies({Absent}, {StartTime}))]

FixedBackends ==
    {[p \in Paths |-> {f[p]}] :
        f \in {g \in [Paths -> UNION {FixedAnswers[p] : p \in Paths}] :
                  \A p \in Paths : g[p] \in FixedAnswers[p]}}

InitFixed == \E b \in FixedBackends : InitWith(ConcScrapers, b)

SpecFixed == InitFixed /\ [][Next]_vars

(* C13 as stated: against a fixed backend any two completed scrapes have     *)
(* sent the same readings.                                                     *)
C13_RepeatedScrapesIdentical ==
    \A s, t \in DOMAIN pc :
        (pc[s] = Done /\ pc[t] = Done) => ch[s] = ch[t]

(* C13 amended: against a fixed backend any two completed scrapes have sent  *)
(* the same readings apart from termination-eta, and the same readings        *)
(* altogether when they read the same clock value.                             *)
WithoutEta(q) == SelectSeq(q, LAMBDA m : m.desc # "terminationTime")

C13_RepeatedScrapesIdenticalButEta ==
    \A s, t \in DOMAIN pc :
        (pc[s] = Done /\ pc[t] = Done) =>
            /\ WithoutEta(ch[s]) = WithoutEta(ch[t])
            /\ clockRead[s] = clockRead[t] => ch[s] = ch[t]

C13_Witness ==
    /\ pc["s1"] = Done /\ pc["s2"] = Done
    /\ Len(ch["s1"]) = 5 /\ Len(ch["s2"]) = 4
    /\ clockRead["s1"] < clockRead["s2"]
    /\ WithoutEta(ch["s1"]) = ch["s2"]

-----------------------------------------------------------------------------
\* the value reading m carries for label name, with the label names of its
\* descriptor
HasLabel(m, name) ==
    \E k \in 1..Len(DescLabels[m.desc]) : DescLabels[m.desc][k] = name
LabelValue(m, name) ==
    m.labels[CHOOSE k \in 1..Len(DescLabels[m.desc]) : DescLabels[m.desc][k] = name]

(* C14: every reading an invocation has sent carries one value per label of  *)
(* its descriptor; its instance_id is the body of that invocation's           *)
(* instance-id answer; termination-imminent, termination-eta and              *)
(* rebalance-recommended carry the body of its instance-type answer as        *)
(* instance_type; and termination-imminent with value 0 carries an empty      *)
(* instance_action.                                                            *)
C14_LabelsOfOwnScrape ==
    \A s \in DOMAIN pc : \A i \in 1..Len(ch[s]) :
        LET m == ch[s][i]
        IN  /\ Len(m.labels) = Len(DescLabels[m.desc])
            /\ Answered(s, InstanceIDPath)
            /\ LabelValue(m, "instance_id") = Answer(s, InstanceIDPath).body.text
            /\ m.desc \in {"terminationIndicator", "terminationTime", "rebalanceIndicator"} =>
                   /\ HasLabel(m, "instance_type")
                   /\ Answered(s, InstanceTypePath)
                   /\ LabelValue(m, "instance_type") = Answer(s, InstanceTypePath).body.text
            /\ (m.desc = "terminationIndicator" /\ m.value = 0) =>
                   LabelValue(m, "instance_action") = ""

C14_Witness ==
    \E s \in DOMAIN pc :
        /\ pc[s] = Done
        /\ Len(ch[s]) = 4
        /\ instanceID[s] = "i-5678" /\ instanceType[s] = "c5.xlarge"
        /\ \E i \in Sent(s, "terminationIndicator") :
               ch[s][i].value = 0 /\ ch[s][i].labels = <<"", "i-5678", "c5.xlarge">>
        /\ \E i \in Sent(s, "rebalanceIndicator") :
               ch[s][i].labels = <<"i-5678", "c5.xlarge">>

-----------------------------------------------------------------------------
\* how many lines an invocation has logged at a level
LinesAt(s, level) ==
    Cardinality({i \in 1..Len(logs[s]) : logs[s][i].level = level})
\* how many of its calls have ended in a transport error, in a body that does
\* not decode, in a 404 of one of the paths ps
TransportErrors(s) ==
    Cardinality({i \in 1..Len(responses[s]) : responses[s][i].err})
DecodeFailures(s) ==
    Cardinality({i \in 1..Len(responses[s]) :
        /\ requests[s][i].path \in {ActionPath, RebalancePath}
        /\ ~responses[s][i].err /\ responses[s][i].status # 404
        /\ ~responses[s][i].body.json \/ responses[s][i].body.timeKind = "invalid"})
NotFounds(s, ps) ==
    Cardinality({i \in 1..Len(responses[s]) :
        requests[s][i].path \in ps /\ responses[s][i].status = 404})

(* C15 as stated: error lines are logged for transport and decode failures   *)
(* only, one each, and every 404 is logged at debug level.                     *)
C15_NotFoundNeverAnError ==
    \A s \in DOMAIN pc :
        /\ LinesAt(s, "error") = TransportErrors(s) + DecodeFailures(s)
        /\ LinesAt(s, "debug") = NotFounds(s, MetadataPaths)

(* C15 amended: a 404 of spot/instance-action or of the rebalance endpoint   *)
(* is logged at debug level and never at error level; a 404 of instance-id    *)
(* or instance-type, which ends the scrape, is logged at error level, as are   *)
(* transport and decode failures; nothing else is logged at either level.      *)
C15_OptionalNotFoundAtDebug ==
    \A s \in DOMAIN pc :
        /\ LinesAt(s, "error") =
               TransportErrors(s) + DecodeFailures(s)
               + NotFounds(s, {InstanceIDPath, InstanceTypePath})
        /\ LinesAt(s, "debug") = NotFounds(s, {ActionPath, RebalancePath})

C15_Witness ==
    \E s \in DOMAIN pc :
        /\ pc[s] = Done
        /\ NotFounds(s, {ActionPath, RebalancePath}) = 2
        /\ LinesAt(s, "debug") = 2
        /\ LinesAt(s, "error") = 0

-----------------------------------------------------------------------------
\* response r with its status replaced by 200, unless it is a 404
As200(r) == IF r.err \/ r.status = 404 THEN r ELSE [r EXCEPT !.status = 200]

\* the call to p returned a response whose status is not 404
AnsweredFound(s, p) ==
    Answered(s, p) /\ ~Answer(s, p).err /\ Answer(s, p).status # 404

\* a body that json.Unmarshal accepts
Decodes(body) == body.json /\ body.timeKind # "invalid"

(* C16: a response of any status but 404 is handled as a 200: its body is    *)
(* the instance id or the instance type and the scrape goes on; for the       *)
(* action and rebalance calls the *_available reading is 1 and the indicator  *)
(* is 1 or 0 as the body decodes or not; and the readings sent are those      *)
(* sent when every such status is 200.                                         *)
C16_OnlyNotFoundIsSpecial ==
    \A s \in DOMAIN pc :
        /\ AnsweredFound(s, InstanceIDPath) =>
               /\ instanceID[s] = Answer(s, InstanceIDPath).body.text
               /\ pc[s] = Calling(InstanceTypePath) \/ Requested(s, InstanceTypePath)
        /\ AnsweredFound(s, InstanceTypePath) =>
               /\ instanceType[s] = Answer(s, InstanceTypePath).body.text
               /\ pc[s] = Calling(ActionPath) \/ Requested(s, ActionPath)
        /\ AnsweredFound(s, ActionPath) =>
               /\ SentOnce(s, "scrapeSuccessful", 1)
               /\ SentOnce(s, "terminationIndicator",
                           IF Decodes(Answer(s, ActionPath).body) THEN 1 ELSE 0)
        /\ AnsweredFound(s, RebalancePath) =>
               /\ SentOnce(s, "rebalanceScrapeSuccessful", 1)
               /\ SentOnce(s, "rebalanceIndicator",
                           IF Decodes(Answer(s, RebalancePath).body) THEN 1 ELSE 0)
        /\ ch[s] = AloneReadings([i \in 1..Len(responses[s]) |-> As200(responses[s][i])],
                                 clockRead[s])

C16_Witness ==
    \E s \in DOMAIN pc :
        /\ pc[s] = Done
        /\ \A p \in MetadataPaths : Answered(s, p) /\ Answer(s, p).status = 500
        /\ instanceID[s] = "i-1234" /\ instanceType[s] = "m5.large"
        /\ SentOnce(s, "terminationIndicator", 1)
        /\ SentOnce(s, "rebalanceIndicator", 0)

-----------------------------------------------------------------------------
\* the five descriptors Describe announces, in the order Collect sends their
\* readings
SendOrder ==
    <<"scrapeSuccessful", "terminationIndicator", "terminationTime",
      "rebalanceScrapeSuccessful", "rebalanceIndicator">>
Rank(d) == CHOOSE k \in 1..Len(SendOrder) : SendOrder[k] = d

(* C17: the readings an invocation has sent are readings of the five         *)
(* descriptors, in the order metadata-service-available,                      *)
(* termination-imminent, termination-eta, rebalance-endpoint-available,       *)
(* rebalance-recommended, each descriptor at most once, hence at most five.   *)
C17_OneReadingPerDescriptorInOrder ==
    \A s \in DOMAIN pc :
        /\ Len(ch[s]) <= 5
        /\ \A i \in 1..Len(ch[s]) :
               /\ \E k \in 1..Len(SendOrder) : SendOrder[k] = ch[s][i].desc
               /\ Cardinality(Sent(s, ch[s][i].desc)) = 1
        /\ \A i, j \in 1..Len(ch[s]) :
               i < j => Rank(ch[s][i].desc) < Rank(ch[s][j].desc)

C17_Witness ==
    \E s \in DOMAIN pc :
        /\ Len(ch[s]) = 5
        /\ \A i \in 1..5 : ch[s][i].desc = SendOrder[i]

-----------------------------------------------------------------------------
(* Progress.  Collect runs on its own goroutine, so an invocation that can   *)
(* issue its next request does; client.Do returns with a response or, when    *)
(* the client's 1 s Timeout fires, with an error, so a pending call           *)
(* returns.  Nothing makes the exposition layer call Collect again, and       *)
(* nothing makes the clock advance.                                           *)
Fairness ==
    \A s \in Scrapers :
        /\ WF_vars(getIMDSv2Token(s))
        /\ WF_vars(getResponse(s))
        /\ WF_vars(TokenReturn(s))
        /\ WF_vars(InstanceIDReturn(s))
        /\ WF_vars(InstanceTypeReturn(s))
        /\ WF_vars(ActionReturn(s))
        /\ WF_vars(RebalanceReturn(s))

\* One invocation at a time against the backend of the concurrent scrapes.
InitLive == InitWith(Scrapers, ConcBackend)

SpecLive == InitLive /\ [][Next]_vars /\ Fairness

(* C18: an invocation never issues more than five requests, and one that is  *)
(* running, about to issue a request or waiting for a response, eventually    *)
(* returns.                                                                    *)
C18_CollectReturns ==
    \A s \in Scrapers :
        /\ [](Len(requests[s]) <= 5)
        /\ (pc[s].at \in {"call", "wait"}) ~> (pc[s] = Done)

C18_Witness ==
    \E s \in DOMAIN pc :
        /\ pc[s] = Done
        /\ Len(requests[s]) = 5
        /\ Len(responses[s]) = 5
        /\ Len(ch[s]) = 5

-----------------------------------------------------------------------------
(* Node label keys.  A key is a sequence of characters, each a string of     *)
(* length one.  getNodeLabels runs once at start-up, before the collector is *)
(* registered, and only when node labels are attached.                       *)

MaxKeyLen == 3

LowerCase ==
    {
      "a", "b", "c", "d", "e", "f", "g", "h", "i", "j", "k", "l", "m",
      "n", "o", "p", "q", "r", "s", "t", "u", "v", "w", "x", "y", "z" }

UpperCase ==
    {
      "A", "B", "C", "D", "E", "F", "G", "H", "I", "J", "K", "L", "M",
      "N", "O", "P", "Q", "R", "S", "T", "U", "V", "W", "X", "Y", "Z" }

Digits ==
    {
      "0", "1", "2", "3", "4", "5", "6", "7", "8", "9" }

\* The characters the regular expression [^a-zA-Z0-9_] does not match.
LabelChars == LowerCase \cup UpperCase \cup Digits \cup {"_"}

invalidLabelCharRE(c) == c \notin LabelChars

\* unicode.IsDigit on a character that is already in LabelChars.
IsDigit(c) == c \in Digits

\* The characters node label keys are drawn from: one of each class the
\* function tells apart, and the separators of keys such as
\* "topology.kubernetes.io/zone" or "node-role.kubernetes.io/worker".
KeyChars == {"a", "Z", "7", "_", "-", ".", "/"}

NodeLabelKeys == UNION {[1..n -> KeyChars] : n \in 0..MaxKeyLen}

ReplaceAllString(name, repl) ==
    [i \in 1..Len(name) |-> IF invalidLabelCharRE(name[i]) THEN repl ELSE name[i]]

\* Without the underscore in front of a leading digit.
sanitizeLabelNameNoPrefix(name) ==
    ReplaceAllString(name, "_")

sanitizeLabelName(name) ==
    LET sanitized == ReplaceAllString(name, "_")
    IN  IF Len(sanitized) > 0 /\ IsDigit(sanitized[1])
        THEN <<"_">> \o sanitized
        ELSE sanitized

InitLabels ==
    /\ nodeLabelKey \in NodeLabelKeys
    /\ sanitizedKeys = {}
    /\ InitCollector(Scrapers, FullBackend)

\* The body of the loop over node.Labels, for the one key of the node.
getNodeLabels ==
    /\ \A s \in DOMAIN pc : pc[s] = Idle
    /\ sanitizedKeys = {}
    /\ sanitizedKeys' = {sanitizeLabelName(nodeLabelKey)}
    /\ UNCHANGED <<nodeLabelKey, useIMDSv2, backend, now, pc, token, instanceID,
                   instanceType, ch, requests, responses, clockRead, logs>>

NextLabels == getNodeLabels

SpecLabels == InitLabels /\ [][NextLabels]_vars

\* A legal label name: non-empty, characters of [a-zA-Z0-9_] only, and no
\* digit in front.
IsLabelName(n) ==
    /\ Len(n) > 0
    /\ \A i \in 1..Len(n) : n[i] \in LabelChars
    /\ n[1] \notin Digits

(* C19: for a non-empty node label key, the sanitized key is a legal label   *)
(* name, made by replacing each disallowed character by "_" and putting a    *)
(* "_" in front when the key starts with a digit; a key that is already a    *)
(* legal label name comes back unchanged, and sanitizing the result again    *)
(* changes nothing.                                                           *)
C19_SanitizedKeyIsLabelName ==
    \A n \in sanitizedKeys :
        Len(nodeLabelKey) > 0 =>
            LET k == nodeLabelKey
                shift == IF k[1] \in Digits THEN 1 ELSE 0
            IN  /\ IsLabelName(n)
                /\ Len(n) = Len(k) + shift
                /\ shift = 1 => n[1] = "_"
                /\ \A i \in 1..Len(k) :
                       n[i + shift] = IF k[i] \in LabelChars THEN k[i] ELSE "_"
                /\ IsLabelName(k) => n = k
                /\ sanitizeLabelName(n) = n

C19_Witness ==
    /\ Len(nodeLabelKey) = MaxKeyLen
    /\ nodeLabelKey[1] \in Digits
    /\ \E i \in 1..Len(nodeLabelKey) : nodeLabelKey[i] \notin LabelChars
    /\ sanitizedKeys # {}
    /\ \A n \in sanitizedKeys : n # nodeLabelKey /\ Len(n) = MaxKeyLen + 1

=============================================================================
